---- MODULE Spec2Model ----
(***************************************************************************)
(* State-machine model of src/timetrackerV1/src/extension.ts, the VS Code  *)
(* time-tracking extension: the module-level session state, the interval   *)
(* timers of the host, the data file and the handlers that act on them.    *)
(*                                                                         *)
(* JavaScript runs each handler to completion; the only suspension point   *)
(* is the await on fetchTasks inside sendHeartbeat, so every handler is    *)
(* one action and sendHeartbeat is two (up to the await, and after it).    *)
(***************************************************************************)
EXTENDS Integers, Sequences, FiniteSets, TLC

VARIABLES
    isOpen,             \* extension.ts:5
    editTime,           \* extension.ts:6   (null or an ISO string)
    totalDuration,      \* extension.ts:7
    previousCharCount,  \* extension.ts:8
    keystrokeCount,     \* extension.ts:9
    updateInterval,     \* extension.ts:11  (timer handle, 0 = undefined)
    heartbeatInterval,  \* extension.ts:12
    keystrokeInterval,  \* extension.ts:13
    timers,             \* the host's live interval timers: records [id, kind]
    nextTimer,          \* the id the next setInterval returns
    pending,            \* sendHeartbeat calls suspended at the await (line 65)
    file,               \* the data file at getDataPath
    phase,              \* "loaded", "active" (activate ran), "deactivated"
    message,            \* what the last call passed to showInformationMessage ("" if nothing)
    lastCall,           \* the entry point the host ran last
    escaped,            \* an exception escaped the last call
    now,                \* the wall clock, ms since the epoch
    editor,             \* vscode.window.activeTextEditor
    history,            \* every heartbeat the data file was ever given
    seen                \* the document lengths the first keystroke ticks read

session == <<isOpen, editTime, totalDuration, previousCharCount, keystrokeCount>>

handles == <<updateInterval, heartbeatInterval, keystrokeInterval>>

vars == <<isOpen, editTime, totalDuration, previousCharCount, keystrokeCount,
          updateInterval, heartbeatInterval, keystrokeInterval, timers,
          nextTimer, pending, file, phase, message, lastCall, escaped, now,
          editor, history, seen>>

(***************************************************************************)
(* Bounds of the model.                                                    *)
(***************************************************************************)
\* start() commands that open a session in one run
MaxStarts == 1

\* timer periods the wall clock advances in one run
MaxClockSteps == 1

\* sendHeartbeat calls suspended at the await at one time
MaxPending == 1

\* heartbeats the data file is given in one run, the earlier run's included
MaxHeartbeats == 1

\* timer periods the wall clock advances in a run of the duration scenario
MaxScenarioClockSteps == 3

\* suspended sendHeartbeat calls and heartbeats in a run of the sampling runs
MaxSamplingPending == 2

MaxSamplingHeartbeats == 2

\* keystroke ticks whose document length a run of the keystroke scenario records
MaxSeen == 3

\* the period of the three interval timers, ms (setInterval(..., 10000))
TimerPeriod == 10000

(***************************************************************************)
(* Dates.  An ISO string is modelled by its fields: toISOString splits the *)
(* millisecond count into calendar date and time of day, and Date parsing  *)
(* puts the count together again.  null is a value of its own.             *)
(***************************************************************************)
MsPerSecond == 1000

MsPerMinute == 1000 * 60

MsPerHour == 1000 * 60 * 60

MsPerDay == 1000 * 60 * 60 * 24

Null == [kind |-> "null", y |-> 0, mo |-> 0, d |-> 0, h |-> 0, mi |-> 0, s |-> 0, ms |-> 0]

\* the string "" that activate writes as editTime
EmptyString == [kind |-> "empty", y |-> 0, mo |-> 0, d |-> 0, h |-> 0, mi |-> 0, s |-> 0, ms |-> 0]

\* the calendar date <<year, month, day>> of day number z (days since 1970-01-01)
CivilFromDays(z) ==
    LET n   == z + 719468
        era == n \div 146097
        doe == n - era * 146097
        yoe == (doe - doe \div 1460 + doe \div 36524 - doe \div 146096) \div 365
        doy == doe - (365 * yoe + yoe \div 4 - yoe \div 100)
        mp  == (5 * doy + 2) \div 153
        m   == IF mp < 10 THEN mp + 3 ELSE mp - 9
    IN  <<IF m <= 2 THEN yoe + era * 400 + 1 ELSE yoe + era * 400,
          m,
          doy - (153 * mp + 2) \div 5 + 1>>

\* the day number of the calendar date y-m-d
DaysFromCivil(y, m, d) ==
    LET yy  == IF m <= 2 THEN y - 1 ELSE y
        era == yy \div 400
        yoe == yy - era * 400
        doy == (153 * (IF m > 2 THEN m - 3 ELSE m + 9) + 2) \div 5 + d - 1
        doe == yoe * 365 + yoe \div 4 - yoe \div 100 + doy
    IN  era * 146097 + doe - 719468

\* new Date(t).toISOString()
toISOString(t) ==
    LET date == CivilFromDays(t \div MsPerDay)
        tod  == t % MsPerDay
    IN  [kind |-> "iso", y |-> date[1], mo |-> date[2], d |-> date[3],
         h  |-> tod \div MsPerHour,
         mi |-> (tod % MsPerHour) \div MsPerMinute,
         s  |-> (tod % MsPerMinute) \div MsPerSecond,
         ms |-> tod % MsPerSecond]

\* new Date(str).getTime(); new Date(null) is the epoch
DateGetTime(str) ==
    IF str.kind = "null" THEN 0
    ELSE DaysFromCivil(str.y, str.mo, str.d) * MsPerDay
         + str.h * MsPerHour + str.mi * MsPerMinute + str.s * MsPerSecond + str.ms

(***************************************************************************)
(* calculateDuration, with JavaScript's arithmetic: % takes the sign of    *)
(* the dividend, Math.floor rounds towards minus infinity, toString writes *)
(* a minus sign, padStart pads to a length and never cuts.                 *)
(***************************************************************************)
JsRem(a, b) == IF a >= 0 THEN a % b ELSE -((-a) % b)

MathFloorDiv(a, b) == a \div b

padStart(str, len, fill) == IF Len(str) < len THEN fill \o str ELSE str

calculateDuration_minutesOfTotal(startTime, endTime) ==
    LET duration == DateGetTime(endTime) - DateGetTime(startTime)
        hours    == MathFloorDiv(duration, MsPerHour)
        minutes  == MathFloorDiv(duration, MsPerMinute)
        seconds  == MathFloorDiv(JsRem(duration, MsPerMinute), MsPerSecond)
    IN  padStart(ToString(hours), 2, "0") \o ":" \o padStart(ToString(minutes), 2, "0")
        \o ":" \o padStart(ToString(seconds), 2, "0")

\* the value calculateDuration assigns to totalDuration
calculateDuration(startTime, endTime) ==
    LET duration == DateGetTime(endTime) - DateGetTime(startTime)
        hours    == MathFloorDiv(duration, MsPerHour)
        minutes  == MathFloorDiv(JsRem(duration, MsPerHour), MsPerMinute)
        seconds  == MathFloorDiv(JsRem(duration, MsPerMinute), MsPerSecond)
    IN  padStart(ToString(hours), 2, "0") \o ":" \o padStart(ToString(minutes), 2, "0")
        \o ":" \o padStart(ToString(seconds), 2, "0")

(***************************************************************************)
(* The data file.  Its content is absent, text JSON.parse rejects, or the  *)
(* TrackingData document a write left there.                               *)
(***************************************************************************)
ExtensionPath == "/ext"

getDataPath == ExtensionPath \o "/" \o "vscode-timetracking-data.json"

TrackingData(open, et, total, count, hbs) ==
    [isOpen |-> open, editTime |-> et, totalDuration |-> total,
     keystrokeCount |-> count, heartbeats |-> hbs]

NoData == TrackingData(FALSE, Null, "", 0, <<>>)

FileAbsent == [kind |-> "absent", data |-> NoData]

FileGarbage == [kind |-> "garbage", data |-> NoData]

FileOf(data) == [kind |-> "json", data |-> data]

\* a document that parses, whose heartbeats member is an object and not an array
FileMisshapen(data) == [kind |-> "misshapen", data |-> data]

\* outcomes of fs.readFileSync and fs.writeFileSync: a failed write either
\* never opened the file or left it cut short
ReadOutcomes == {"ok", "fail"}

WriteOutcomes == {"ok", "fail", "partial"}

\* readHeartbeats: every failure is caught and reads as no heartbeats; a
\* heartbeats member that is not an array is returned as it is (array = FALSE)
readHeartbeats(f, r) ==
    IF f.kind = "absent" THEN [value |-> <<>>, threw |-> FALSE, array |-> TRUE]
    ELSE IF r = "fail" THEN [value |-> <<>>, threw |-> FALSE, array |-> TRUE]
    ELSE IF f.kind = "garbage" THEN [value |-> <<>>, threw |-> FALSE, array |-> TRUE]
    ELSE IF f.kind = "misshapen" THEN [value |-> <<>>, threw |-> FALSE, array |-> FALSE]
    ELSE [value |-> f.data.heartbeats, threw |-> FALSE, array |-> TRUE]

writeDataFile_noCatch(f, data, w) ==
    CASE w = "ok"      -> [file |-> data, threw |-> FALSE]
      [] w = "fail"    -> [file |-> f, threw |-> TRUE]
      [] w = "partial" -> [file |-> FileGarbage, threw |-> TRUE]

\* writeDataFile: the write of the document data, its failure caught and logged
writeDataFile(f, data, w) ==
    CASE w = "ok"      -> [file |-> data, threw |-> FALSE]
      [] w = "fail"    -> [file |-> f, threw |-> FALSE]
      [] w = "partial" -> [file |-> FileGarbage, threw |-> FALSE]

updateData_noRead(sess, f, r, w) ==
    writeDataFile(f, FileOf(TrackingData(sess.isOpen, sess.editTime, sess.totalDuration,
                                         sess.keystrokeCount, <<>>)), w)

\* updateData for the session sess = [isOpen, editTime, totalDuration, keystrokeCount]:
\* what readHeartbeats returned goes into the document as it is
updateData(sess, f, r, w) ==
    LET hbs  == readHeartbeats(f, r)
        data == TrackingData(sess.isOpen, sess.editTime, sess.totalDuration,
                             sess.keystrokeCount, hbs.value)
    IN  IF hbs.threw THEN [file |-> f, threw |-> TRUE]
        ELSE writeDataFile(f, IF hbs.array THEN FileOf(data) ELSE FileMisshapen(data), w)

\* updateDataWithHeartbeat: the spread of a value that is not an array throws
\* before anything is written
updateDataWithHeartbeat(sess, heartbeat, f, r, w) ==
    LET hbs == readHeartbeats(f, r)
    IN  IF hbs.threw \/ ~hbs.array THEN [file |-> f, threw |-> TRUE]
        ELSE writeDataFile(f, FileOf(TrackingData(sess.isOpen, sess.editTime,
                                                  sess.totalDuration, sess.keystrokeCount,
                                                  Append(hbs.value, heartbeat))), w)

\* the in-memory session as updateData reads it
Session == [isOpen |-> isOpen, editTime |-> editTime, totalDuration |-> totalDuration,
            keystrokeCount |-> keystrokeCount]


(***************************************************************************)
(* The host: the active editor, the task list and the debug session that   *)
(* sendHeartbeat and trackKeystrokes read.                                 *)
(***************************************************************************)
WorkFile == "/work/a.ts"

EditorPaths == {WorkFile, getDataPath}

DocLengths == {100, 130, 140}

Origin == [line |-> 0, character |-> 0]

NoEditor == [open |-> FALSE, path |-> "", length |-> 0, cursor |-> Origin]

EditorOn(p, n) == [open |-> TRUE, path |-> p, length |-> n, cursor |-> Origin]

Editors == {NoEditor} \cup {EditorOn(p, n) : p \in EditorPaths, n \in DocLengths}

Lower == [c \in {"B", "L", "a", "b", "c", "d", "e", "i", "l", "m", "n", "o", "p", "t", "u"} |->
             CASE c = "B" -> "b" [] c = "L" -> "l" [] OTHER -> c]

\* name.toLowerCase(), a name being the sequence of its characters
toLowerCase(name) == [i \in 1..Len(name) |-> Lower[name[i]]]

\* str.includes(sub)
includes(str, sub) ==
    \E i \in 0..(Len(str) - Len(sub)) : SubSeq(str, i + 1, i + Len(sub)) = sub

BuildTask == [isBackground |-> FALSE, execution |-> TRUE,
              name |-> <<"B", "u", "i", "l", "d">>]

LintTask == [isBackground |-> TRUE, execution |-> FALSE,
             name |-> <<"L", "i", "n", "t">>]

\* what fetchTasks resolves to
TaskLists == {<<>>, <<LintTask>>, <<LintTask, BuildTask>>}

\* lines 66-68
isTaskRunning(tasks) ==
    \E i \in 1..Len(tasks) : tasks[i].isBackground \/ tasks[i].execution

\* lines 70-72
isCompiling(tasks) ==
    \E i \in 1..Len(tasks) :
        \/ includes(toLowerCase(tasks[i].name), <<"c", "o", "m", "p", "i", "l", "e">>)
        \/ includes(toLowerCase(tasks[i].name), <<"b", "u", "i", "l", "d">>)

(***************************************************************************)
(* Timers.  setInterval makes a live timer and returns its handle;         *)
(* clearInterval ends the timer the handle names and nothing else.         *)
(***************************************************************************)
KindUpdate == "updateTotalDuration"

KindHeartbeat == "sendHeartbeat"

KindKeystroke == "trackKeystrokes"

\* the three setInterval calls of lines 24-26 and 224-226
setIntervals(ts, n) ==
    ts \cup {[id |-> n, kind |-> KindUpdate], [id |-> n + 1, kind |-> KindHeartbeat],
             [id |-> n + 2, kind |-> KindKeystroke]}

\* the three clearInterval calls of lines 41-43 and 249-251
clearIntervals(ts) ==
    {t \in ts : t.id \notin {updateInterval, heartbeatInterval, keystrokeInterval}}

Live(kind) == \E t \in timers : t.kind = kind

\* sessions opened so far: activate takes ids 1..3, every opening start three more
Starts == (nextTimer - 4) \div 3


(***************************************************************************)
(* The initial state: the module is loaded, activate has not run.  The     *)
(* data file is absent, unparseable, or the document an earlier run left.  *)
(***************************************************************************)
PriorHeartbeat ==
    [timestamp |-> toISOString(0), filePath |-> WorkFile, cursorPosition |-> Origin,
     isTaskRunning |-> FALSE, isCompiling |-> FALSE, isDebugging |-> FALSE,
     keystrokeCount |-> 100]

PriorData == TrackingData(FALSE, toISOString(0), "00:00:10", 100, <<PriorHeartbeat>>)

InitialFiles == {FileAbsent, FileGarbage, FileOf(PriorData)}

InitWith(files) ==
    /\ isOpen = FALSE
    /\ editTime = Null
    /\ totalDuration = "00:00:00"
    /\ previousCharCount = 0
    /\ keystrokeCount = 0
    /\ updateInterval = 0
    /\ heartbeatInterval = 0
    /\ keystrokeInterval = 0
    /\ timers = {}
    /\ nextTimer = 1
    /\ pending = <<>>
    /\ file \in files
    /\ phase = "loaded"
    /\ message = ""
    /\ lastCall = "none"
    /\ escaped = FALSE
    /\ now = 0
    /\ editor = NoEditor
    /\ history = readHeartbeats(file, "ok").value
    /\ seen = <<>>

(***************************************************************************)
(* The handlers.                                                           *)
(***************************************************************************)
\* activate, lines 218-243
activate(w) ==
    /\ phase = "loaded"
    /\ phase' = "active"
    /\ lastCall' = "activate"
    /\ updateInterval' = nextTimer
    /\ heartbeatInterval' = nextTimer + 1
    /\ keystrokeInterval' = nextTimer + 2
    /\ timers' = setIntervals(timers, nextTimer)
    /\ nextTimer' = nextTimer + 3
    /\ IF file.kind = "absent"
       THEN LET u == writeDataFile(file, FileOf(TrackingData(FALSE, EmptyString, "00:00:00", 0, <<>>)), w)
            IN  /\ file' = u.file
                /\ escaped' = u.threw
       ELSE /\ escaped' = FALSE
            /\ UNCHANGED file
    /\ message' = ""
    /\ UNCHANGED <<session, pending, now, editor>>

startTrackingTime_noGuard(r, w) ==
    /\ phase = "active"
    /\ lastCall' = "startTrackingTime"
    /\ LET et == toISOString(now)
           u  == updateData([Session EXCEPT !.isOpen = TRUE, !.editTime = et], file, r, w)
       IN  /\ isOpen' = TRUE
           /\ editTime' = et
           /\ file' = u.file
           /\ escaped' = u.threw
           /\ IF u.threw
              THEN message' = "" /\ UNCHANGED <<handles, timers, nextTimer>>
              ELSE /\ message' = "Manual time tracking started."
                   /\ updateInterval' = nextTimer
                   /\ heartbeatInterval' = nextTimer + 1
                   /\ keystrokeInterval' = nextTimer + 2
                   /\ timers' = setIntervals(timers, nextTimer)
                   /\ nextTimer' = nextTimer + 3
    /\ UNCHANGED <<totalDuration, previousCharCount, keystrokeCount, pending, phase,
                   now, editor>>

\* startTrackingTime, lines 18-30
startTrackingTime(r, w) ==
    /\ phase = "active"
    /\ lastCall' = "startTrackingTime"
    /\ IF ~isOpen
       THEN LET et == toISOString(now)
                u  == updateData([Session EXCEPT !.isOpen = TRUE, !.editTime = et], file, r, w)
            IN  /\ isOpen' = TRUE
                /\ editTime' = et
                /\ file' = u.file
                /\ escaped' = u.threw
                /\ IF u.threw
                   THEN message' = "" /\ UNCHANGED <<handles, timers, nextTimer>>
                   ELSE /\ message' = "Manual time tracking started."
                        /\ updateInterval' = nextTimer
                        /\ heartbeatInterval' = nextTimer + 1
                        /\ keystrokeInterval' = nextTimer + 2
                        /\ timers' = setIntervals(timers, nextTimer)
                        /\ nextTimer' = nextTimer + 3
       ELSE /\ message' = "Time tracking is already active."
            /\ escaped' = FALSE
            /\ UNCHANGED <<isOpen, editTime, file, handles, timers, nextTimer>>
    /\ UNCHANGED <<totalDuration, previousCharCount, keystrokeCount, pending, phase,
                   now, editor>>

stopTrackingTime_noGuard(r, w) ==
    /\ phase = "active"
    /\ lastCall' = "stopTrackingTime"
    /\ LET total == calculateDuration(editTime, toISOString(now))
           u     == updateData([Session EXCEPT !.isOpen = FALSE, !.totalDuration = total],
                               file, r, w)
       IN  /\ isOpen' = FALSE
           /\ totalDuration' = total
           /\ file' = u.file
           /\ escaped' = u.threw
           /\ IF u.threw
              THEN message' = "" /\ UNCHANGED timers
              ELSE /\ timers' = clearIntervals(timers)
                   /\ message' = "Manual time tracking stopped."
    /\ UNCHANGED <<editTime, previousCharCount, keystrokeCount, handles, nextTimer,
                   pending, phase, now, editor>>

\* stopTrackingTime, lines 35-48
stopTrackingTime(r, w) ==
    /\ phase = "active"
    /\ lastCall' = "stopTrackingTime"
    /\ IF isOpen
       THEN LET total == calculateDuration(editTime, toISOString(now))
                u     == updateData([Session EXCEPT !.isOpen = FALSE, !.totalDuration = total],
                                    file, r, w)
            IN  /\ isOpen' = FALSE
                /\ totalDuration' = total
                /\ file' = u.file
                /\ escaped' = u.threw
                /\ IF u.threw
                   THEN message' = "" /\ UNCHANGED timers
                   ELSE /\ timers' = clearIntervals(timers)
                        /\ message' = "Manual time tracking stopped."
       ELSE /\ message' = "Time tracking is not active."
            /\ escaped' = FALSE
            /\ UNCHANGED <<isOpen, totalDuration, file, timers>>
    /\ UNCHANGED <<editTime, previousCharCount, keystrokeCount, handles, nextTimer,
                   pending, phase, now, editor>>

updateTotalDuration_fromCheckpoint(r, w) ==
    /\ Live(KindUpdate)
    /\ lastCall' = KindUpdate
    /\ IF isOpen
       THEN LET total == calculateDuration(editTime, toISOString(now))
                u     == updateData([Session EXCEPT !.totalDuration = total], file, r, w)
            IN  /\ totalDuration' = total
                /\ editTime' = toISOString(now)
                /\ file' = u.file
                /\ escaped' = u.threw
       ELSE /\ escaped' = FALSE
            /\ UNCHANGED <<totalDuration, editTime, file>>
    /\ message' = ""
    /\ UNCHANGED <<isOpen, previousCharCount, keystrokeCount, handles, timers,
                   nextTimer, pending, phase, now, editor>>

\* updateTotalDuration, lines 100-106, run by a live duration timer
updateTotalDuration(r, w) ==
    /\ Live(KindUpdate)
    /\ lastCall' = KindUpdate
    /\ IF isOpen
       THEN LET total == calculateDuration(editTime, toISOString(now))
                u     == updateData([Session EXCEPT !.totalDuration = total], file, r, w)
            IN  /\ totalDuration' = total
                /\ file' = u.file
                /\ escaped' = u.threw
       ELSE /\ escaped' = FALSE
            /\ UNCHANGED <<totalDuration, file>>
    /\ message' = ""
    /\ UNCHANGED <<isOpen, editTime, previousCharCount, keystrokeCount, handles, timers,
                   nextTimer, pending, phase, now, editor>>

trackKeystrokes_clamped(r, w) ==
    /\ Live(KindKeystroke)
    /\ lastCall' = KindKeystroke
    /\ IF editor.open
       THEN LET currentCharCount == editor.length
                charsTyped       == IF currentCharCount > previousCharCount
                                    THEN currentCharCount - previousCharCount ELSE 0
                count            == keystrokeCount + charsTyped
                u == updateData([Session EXCEPT !.keystrokeCount = count], file, r, w)
            IN  /\ previousCharCount' = currentCharCount
                /\ keystrokeCount' = count
                /\ message' = "Characters typed in the last interval: " \o ToString(charsTyped)
                /\ file' = u.file
                /\ escaped' = u.threw
       ELSE /\ escaped' = FALSE
            /\ message' = ""
            /\ UNCHANGED <<previousCharCount, keystrokeCount, file>>
    /\ UNCHANGED <<isOpen, editTime, totalDuration, handles, timers, nextTimer, pending,
                   phase, now, editor>>

\* trackKeystrokes, lines 111-122, run by a live keystroke timer
trackKeystrokes(r, w) ==
    /\ Live(KindKeystroke)
    /\ lastCall' = KindKeystroke
    /\ IF editor.open
       THEN LET currentCharCount == editor.length
                charsTyped       == currentCharCount - previousCharCount
                count            == keystrokeCount + charsTyped
                u == updateData([Session EXCEPT !.keystrokeCount = count], file, r, w)
            IN  /\ previousCharCount' = currentCharCount
                /\ keystrokeCount' = count
                /\ message' = "Characters typed in the last interval: " \o ToString(charsTyped)
                /\ file' = u.file
                /\ escaped' = u.threw
       ELSE /\ escaped' = FALSE
            /\ message' = ""
            /\ UNCHANGED <<previousCharCount, keystrokeCount, file>>
    /\ UNCHANGED <<isOpen, editTime, totalDuration, handles, timers, nextTimer, pending,
                   phase, now, editor>>

\* sendHeartbeat up to the await, lines 54-65, run by a live heartbeat timer
sendHeartbeat ==
    /\ Live(KindHeartbeat)
    /\ lastCall' = KindHeartbeat
    /\ escaped' = FALSE
    /\ IF editor.open
       THEN pending' = Append(pending, [timestamp |-> toISOString(now),
                                      filePath |-> editor.path,
                                      cursorPosition |-> editor.cursor])
       ELSE UNCHANGED pending
    /\ message' = ""
    /\ UNCHANGED <<session, handles, timers, nextTimer, file, phase, now, editor>>

\* the heartbeat the i-th suspended call builds when it resumes, lines 66-90
HeartbeatOf(i, tasks, debugSession) ==
    [timestamp |-> pending[i].timestamp, filePath |-> pending[i].filePath,
     cursorPosition |-> pending[i].cursorPosition,
     isTaskRunning |-> isTaskRunning(tasks), isCompiling |-> isCompiling(tasks),
     isDebugging |-> debugSession, keystrokeCount |-> keystrokeCount]

\* sendHeartbeat after the await, lines 66-93, for the i-th suspended call
sendHeartbeatResume(i, tasks, debugSession, r, w) ==
    /\ i \in 1..Len(pending)
    /\ lastCall' = "sendHeartbeatResume"
    /\ LET u == updateDataWithHeartbeat(Session, HeartbeatOf(i, tasks, debugSession), file, r, w)
       IN  /\ file' = u.file
           /\ escaped' = u.threw
    /\ pending' = SubSeq(pending, 1, i - 1) \o SubSeq(pending, i + 1, Len(pending))
    /\ message' = ""
    /\ UNCHANGED <<session, handles, timers, nextTimer, phase, now, editor>>

\* the argument of deactivate: the context activate received, or nothing, which
\* is how the host calls it
TheContext == [defined |-> TRUE, extensionPath |-> ExtensionPath]

NoContext == [defined |-> FALSE, extensionPath |-> ""]

Contexts == {TheContext, NoContext}

\* deactivate, lines 248-253: the three clearInterval calls, then updateData;
\* without a context getDataPath throws (line 180) before any file access and
\* the error leaves deactivate
deactivate(context, r, w) ==
    /\ phase = "active"
    /\ phase' = "deactivated"
    /\ lastCall' = "deactivate"
    /\ timers' = clearIntervals(timers)
    /\ IF context.defined
       THEN LET u == updateData(Session, file, r, w)
            IN  /\ file' = u.file
                /\ escaped' = u.threw
       ELSE /\ escaped' = TRUE
            /\ UNCHANGED file
    /\ message' = ""
    /\ UNCHANGED <<session, handles, nextTimer, pending, now, editor>>

(***************************************************************************)
(* The environment: the wall clock moves (forward, or back when it is      *)
(* set), the user switches editors, types and deletes.                     *)
(***************************************************************************)
ClockAdvance(steps) ==
    /\ now + TimerPeriod <= steps * TimerPeriod
    /\ now' = now + TimerPeriod
    /\ lastCall' = "none"
    /\ message' = ""
    /\ escaped' = FALSE
    /\ UNCHANGED <<session, handles, timers, nextTimer, pending, file, phase, editor>>

ClockSetBack ==
    /\ now - TimerPeriod >= 0
    /\ now' = now - TimerPeriod
    /\ lastCall' = "none"
    /\ message' = ""
    /\ escaped' = FALSE
    /\ UNCHANGED <<session, handles, timers, nextTimer, pending, file, phase, editor>>

EditorChange(e) ==
    /\ e # editor
    /\ editor' = e
    /\ lastCall' = "none"
    /\ message' = ""
    /\ escaped' = FALSE
    /\ UNCHANGED <<session, handles, timers, nextTimer, pending, file, phase, now>>

(***************************************************************************)
(* One step of the extension in its host.  env says what the environment   *)
(* may do and how far a run goes: the outcomes of reads and writes of the  *)
(* data file, the editors the user moves between, what fetchTasks and      *)
(* activeDebugSession return, and the bounds on the clock, the sessions,   *)
(* the suspended calls and the heartbeats.  The handlers are the code; the *)
(* step adds the bounds and keeps the two records of the run, history and  *)
(* seen, which no handler reads.                                           *)
(***************************************************************************)
Appends(w) == w = "ok"

\* the document an earlier run left when its heartbeats member is not an array
PriorMisshapen == FileMisshapen(TrackingData(FALSE, toISOString(0), "00:00:10", 100, <<>>))

\* readFileSync runs, and can fail, only when existsSync finds the file
Reads(env) == IF file.kind = "absent" THEN {"ok"} ELSE env.reads

Step(env) ==
    \/ \E w \in env.writes :
           activate(w) /\ UNCHANGED <<history, seen>>
    \/ \E r \in Reads(env), w \in env.writes :
           /\ isOpen \/ Starts < env.starts
           /\ startTrackingTime(r, w)
           /\ UNCHANGED <<history, seen>>
    \/ \E r \in Reads(env), w \in env.writes :
           stopTrackingTime(r, w) /\ UNCHANGED <<history, seen>>
    \/ \E r \in Reads(env), w \in env.writes :
           updateTotalDuration(r, w) /\ UNCHANGED <<history, seen>>
    \/ \E r \in Reads(env), w \in env.writes :
           /\ trackKeystrokes(r, w)
           /\ seen' = IF editor.open /\ Len(seen) < env.seen
                      THEN Append(seen, editor.length) ELSE seen
           /\ UNCHANGED history
    \/ /\ editor.open => /\ Len(pending) < env.pending
                         /\ Len(history) + Len(pending) < env.heartbeats
       /\ sendHeartbeat
       /\ UNCHANGED <<history, seen>>
    \/ \E i \in 1..env.pending, tasks \in env.tasks, debugSession \in env.debug,
          r \in Reads(env), w \in env.writes :
           /\ sendHeartbeatResume(i, tasks, debugSession, r, w)
           /\ history' = IF Appends(w) /\ ~escaped'
                         THEN Append(history, HeartbeatOf(i, tasks, debugSession))
                         ELSE history
           /\ UNCHANGED seen
    \/ \E context \in Contexts, r \in Reads(env), w \in env.writes :
           deactivate(context, r, w) /\ UNCHANGED <<history, seen>>
    \/ ClockAdvance(env.clock) /\ UNCHANGED <<history, seen>>
    \/ \E e \in env.editors : EditorChange(e) /\ UNCHANGED <<history, seen>>

\* The session under I/O failures: every read and write may fail; the user opens
\* one document.
Env ==
    [reads |-> ReadOutcomes, writes |-> WriteOutcomes,
     editors |-> {EditorOn(WorkFile, 100)}, tasks |-> {<<>>}, debug |-> {FALSE},
     clock |-> MaxClockSteps, starts |-> MaxStarts, pending |-> MaxPending,
     heartbeats |-> MaxHeartbeats, seen |-> 0]

Init == InitWith(InitialFiles)

Next == Step(Env)

Spec == Init /\ [][Next]_vars

\* Sampling with a working file system: every editor path, task list and debug state.
EnvSampling ==
    [reads |-> {"ok"}, writes |-> {"ok"},
     editors |-> {NoEditor, EditorOn(WorkFile, 100), EditorOn(getDataPath, 140)},
     tasks |-> {<<>>, <<LintTask, BuildTask>>}, debug |-> BOOLEAN,
     clock |-> MaxClockSteps, starts |-> MaxStarts, pending |-> MaxSamplingPending,
     heartbeats |-> MaxSamplingHeartbeats, seen |-> 0]

InitSampling == InitWith({FileAbsent, FileOf(PriorData)})

NextSampling == Step(EnvSampling)

SpecSampling == InitSampling /\ [][NextSampling]_vars

\* The keystroke scenario: one document whose length the user changes.
EnvKeys ==
    [reads |-> {"ok"}, writes |-> {"ok"},
     editors |-> {NoEditor} \cup {EditorOn(WorkFile, n) : n \in DocLengths},
     tasks |-> {<<>>}, debug |-> {FALSE},
     clock |-> MaxClockSteps, starts |-> MaxStarts, pending |-> MaxPending,
     heartbeats |-> MaxHeartbeats, seen |-> MaxSeen]

InitKeys == InitWith({FileAbsent})

NextKeys == Step(EnvKeys)

SpecKeys == InitKeys /\ [][NextKeys]_vars

\* The document changing length under the keystroke ticks, the run unrecorded.
EnvLengths == [EnvKeys EXCEPT !.seen = 0]

NextLengths == Step(EnvLengths)

SpecLengths == InitKeys /\ [][NextLengths]_vars

\* The duration scenario: a fresh install, the clock running three periods.
EnvClock ==
    [reads |-> {"ok"}, writes |-> {"ok"},
     editors |-> {NoEditor, EditorOn(WorkFile, 100)}, tasks |-> {<<>>}, debug |-> {FALSE},
     clock |-> MaxScenarioClockSteps, starts |-> MaxStarts, pending |-> MaxPending,
     heartbeats |-> MaxHeartbeats, seen |-> 0]

InitClock == InitWith({FileAbsent})

NextClock == Step(EnvClock)

SpecClock == InitClock /\ [][NextClock]_vars

\* The duration scenario with a wall clock that is also set back.
NextSetBack ==
    \/ Step(EnvClock)
    \/ ClockSetBack /\ UNCHANGED <<history, seen>>

SpecSetBack == InitClock /\ [][NextSetBack]_vars

\* Reads may fail, writes succeed: what a failed read alone does to the file.
EnvReads ==
    [reads |-> ReadOutcomes, writes |-> {"ok"},
     editors |-> {EditorOn(WorkFile, 100)}, tasks |-> {<<>>}, debug |-> {FALSE},
     clock |-> MaxClockSteps, starts |-> MaxStarts, pending |-> MaxPending,
     heartbeats |-> MaxSamplingHeartbeats, seen |-> 0]

InitReads == InitWith(InitialFiles)

NextReads == Step(EnvReads)

SpecReads == InitReads /\ [][NextReads]_vars

\* The data file found malformed: cut short, or with a heartbeats member that is
\* not an array; reads may fail, writes succeed.
EnvMalformed ==
    [reads |-> ReadOutcomes, writes |-> {"ok"},
     editors |-> {EditorOn(WorkFile, 100)}, tasks |-> {<<>>}, debug |-> {FALSE},
     clock |-> MaxClockSteps, starts |-> MaxStarts, pending |-> MaxPending,
     heartbeats |-> MaxHeartbeats, seen |-> 0]

InitMalformed == InitWith({FileGarbage, PriorMisshapen})

NextMalformed == Step(EnvMalformed)

SpecMalformed == InitMalformed /\ [][NextMalformed]_vars

\* Suspended sendHeartbeat calls interleaved with the commands and the other
\* ticks, the file system working.  A call suspended at the await on fetchTasks
\* is resumed once the host has answered: the resumption is weakly fair.
EnvInterleave ==
    [reads |-> {"ok"}, writes |-> {"ok"},
     editors |-> {NoEditor, EditorOn(WorkFile, 100)}, tasks |-> {<<>>}, debug |-> {FALSE},
     clock |-> MaxClockSteps, starts |-> MaxStarts, pending |-> MaxSamplingPending,
     heartbeats |-> MaxSamplingHeartbeats, seen |-> 0]

InitInterleave == InitWith({FileAbsent})

NextInterleave == Step(EnvInterleave)

Resumption ==
    \E i \in 1..Len(pending), tasks \in EnvInterleave.tasks, debugSession \in EnvInterleave.debug :
        /\ sendHeartbeatResume(i, tasks, debugSession, "ok", "ok")
        /\ history' = Append(history, HeartbeatOf(i, tasks, debugSession))
        /\ UNCHANGED seen

SpecInterleave == InitInterleave /\ [][NextInterleave]_vars /\ WF_vars(Resumption)

(***************************************************************************)
(* calculateDuration on its own: the start instant is in editTime, the end *)
(* instant is the clock, and the one action applies the function.          *)
(***************************************************************************)
DurationStarts == {0, MsPerDay - MsPerSecond}

DurationSamples ==
    {h * MsPerHour + m * MsPerMinute + sec * MsPerSecond + ms :
        h \in {0, 1, 23, 24, 25, 99, 100}, m \in {0, 1, 59}, sec \in {0, 1, 59},
        ms \in {0, 999}}

InitDuration ==
    /\ isOpen = FALSE
    /\ totalDuration = "00:00:00"
    /\ previousCharCount = 0
    /\ keystrokeCount = 0
    /\ updateInterval = 0
    /\ heartbeatInterval = 0
    /\ keystrokeInterval = 0
    /\ timers = {}
    /\ nextTimer = 1
    /\ pending = <<>>
    /\ file = FileAbsent
    /\ phase = "loaded"
    /\ message = ""
    /\ lastCall = "none"
    /\ escaped = FALSE
    /\ editor = NoEditor
    /\ history = <<>>
    /\ seen = <<>>
    /\ \E start \in DurationStarts, d \in DurationSamples :
           /\ editTime = toISOString(start)
           /\ now = start + d

ApplyCalculateDuration ==
    /\ lastCall = "none"
    /\ totalDuration' = calculateDuration(editTime, toISOString(now))
    /\ lastCall' = "calculateDuration"
    /\ UNCHANGED <<isOpen, editTime, previousCharCount, keystrokeCount, handles, timers,
                   nextTimer, pending, file, phase, message, escaped, now, editor,
                   history, seen>>

SpecDuration == InitDuration /\ [][ApplyCalculateDuration]_vars


(***************************************************************************)
(* The claims.                                                             *)
(***************************************************************************)
TimerCallbacks == {KindUpdate, KindHeartbeat, KindKeystroke}

\* the heartbeats list a reader of the data file finds
FileHeartbeats(f) == readHeartbeats(f, "ok").value

IsPrefix(a, b) == Len(a) <= Len(b) /\ SubSeq(b, 1, Len(a)) = a

\* a session was opened and stopped, and no start() has come since
Stopped == phase = "active" /\ ~isOpen /\ editTime # Null

\* C1: once a stop() that found the session open has returned, no
\* duration-update, heartbeat or keystroke timer callback runs until the next
\* start().
C1_NoTickAfterStop == Stopped => lastCall \notin TimerCallbacks

\* C2: the heartbeats list of the data file only grows: every step leaves the
\* earlier list a prefix of the later one, also when the read of the file
\* fails, and a successful heartbeat sample makes it one longer.
C2_AppendOnly ==
    [][/\ IsPrefix(FileHeartbeats(file), FileHeartbeats(file'))
       /\ (lastCall' = "sendHeartbeatResume" /\ history' # history)
              => Len(FileHeartbeats(file')) = Len(FileHeartbeats(file)) + 1]_vars

\* C3: a stop() that finds the session closed changes neither the session, nor
\* the timers and their handles, nor the data file.
C3_StopIdleNoTransition ==
    [][(lastCall' = "stopTrackingTime" /\ ~isOpen)
          => UNCHANGED <<isOpen, editTime, totalDuration, previousCharCount, keystrokeCount,
                         handles, timers, nextTimer, file, pending>>]_vars

\* a second stop() has run after the stop() that closed a session whose file
\* holds a document
C3_Witness ==
    /\ lastCall = "stopTrackingTime"
    /\ message = "Time tracking is not active."
    /\ editTime # Null
    /\ file.kind = "json"

\* C4: a start() that finds the session open changes neither the session (editTime
\* stays the instant of the opening start()), nor the timers and their handles,
\* nor the data file.
C4_StartOpenNoTransition ==
    [][(lastCall' = "startTrackingTime" /\ isOpen)
          => UNCHANGED <<isOpen, editTime, totalDuration, previousCharCount, keystrokeCount,
                         handles, timers, nextTimer, file, pending>>]_vars

\* a start() has run on an open session after the clock moved on from its opening
C4_Witness ==
    /\ lastCall = "startTrackingTime"
    /\ message = "Time tracking is already active."
    /\ isOpen
    /\ now > DateGetTime(editTime)

\* C5: a duration tick on an open session leaves editTime as the opening start()
\* set it and sets totalDuration to the formatted difference between the clock
\* and that editTime; 30 s after the start it is "00:00:30"; and a stop() leaves
\* the session closed.
C5_DurationRecomputed ==
    [][/\ (lastCall' = KindUpdate /\ isOpen)
              => /\ editTime' = editTime
                 /\ totalDuration' = calculateDuration(editTime, toISOString(now))
                 /\ (now - DateGetTime(editTime) = 3 * TimerPeriod
                        => totalDuration' = "00:00:30")
       /\ (lastCall' = "stopTrackingTime" => ~isOpen')]_vars

\* the session opened at clock 0 and a duration tick ran three periods later
C5_Witness ==
    /\ lastCall = KindUpdate
    /\ isOpen
    /\ editTime = toISOString(0)
    /\ now = 3 * TimerPeriod
    /\ totalDuration = "00:00:30"

\* C6: no heartbeat whose file path is the path of the data file is appended to
\* the data file.
C6_SelfExclusion ==
    \A i \in 1..Len(FileHeartbeats(file)) : FileHeartbeats(file)[i].filePath # getDataPath

Digits == <<"0", "1", "2", "3", "4", "5", "6", "7", "8", "9">>

RECURSIVE Decimal(_)
\* the decimal numeral of a natural number
Decimal(n) == IF n < 10 THEN Digits[n + 1] ELSE Decimal(n \div 10) \o Digits[(n % 10) + 1]

\* a natural number written with at least two digits
TwoDigits(n) == IF n < 10 THEN "0" \o Decimal(n) ELSE Decimal(n)

\* HH:MM:SS of d milliseconds, by floor arithmetic, hours not wrapped
HHMMSS(d) ==
    TwoDigits(d \div 3600000) \o ":" \o TwoDigits((d % 3600000) \div 60000)
    \o ":" \o TwoDigits((d % 60000) \div 1000)

\* C7: for end >= start calculateDuration sets totalDuration to HH:MM:SS of the
\* difference d in ms: HH = floor(d / 3600000) (not wrapped at 24),
\* MM = floor((d mod 3600000) / 60000), SS = floor((d mod 60000) / 1000), each
\* padded to two digits; d = 3661000 gives "01:01:01".
C7_DurationFormat ==
    (lastCall = "calculateDuration" /\ now >= DateGetTime(editTime))
        => /\ totalDuration = HHMMSS(now - DateGetTime(editTime))
           /\ (now - DateGetTime(editTime) = 3661000 => totalDuration = "01:01:01")

\* calculateDuration has run on instants 3661000 ms apart
C7_Witness ==
    /\ lastCall = "calculateDuration"
    /\ now - DateGetTime(editTime) = 3661000
    /\ totalDuration = "01:01:01"

\* C8: a keystroke tick adds currentLength - previousLength to keystrokeCount
\* and sets previousLength to currentLength; when the keystroke ticks of a run
\* read the lengths 100, 140 and 130, keystrokeCount ends at 30.
C8_KeystrokeScenario ==
    [][/\ (lastCall' = KindKeystroke /\ editor.open)
              => /\ keystrokeCount' = keystrokeCount + (editor.length - previousCharCount)
                 /\ previousCharCount' = editor.length
       /\ (seen = <<100, 140>> /\ seen' = <<100, 140, 130>>) => keystrokeCount' = 30]_vars

\* C9: after activation, with no sendHeartbeat suspended and no write failed,
\* the data file holds the in-memory isOpen, editTime, totalDuration and
\* keystrokeCount and every heartbeat appended so far.  (The "" that activate
\* writes for a session never opened is read as the in-memory null.)
C9_FileReflectsSession ==
    (phase # "loaded" /\ pending = <<>>)
        => /\ file.kind = "json"
           /\ file.data.isOpen = isOpen
           /\ \/ file.data.editTime = editTime
              \/ file.data.editTime = EmptyString /\ editTime = Null
           /\ file.data.totalDuration = totalDuration
           /\ file.data.keystrokeCount = keystrokeCount
           /\ file.data.heartbeats = history

\* C10: whatever the read and the write of the data file do, a start() on a
\* closed session opens it at the current instant and creates the three timers,
\* a stop() on an open session closes it, recomputes totalDuration and clears
\* the timers, and no exception escapes either call.
C10_TransitionCompletes ==
    [][/\ (lastCall' = "startTrackingTime" /\ ~isOpen)
              => /\ isOpen'
                 /\ editTime' = toISOString(now)
                 /\ timers' = setIntervals(timers, nextTimer)
                 /\ handles' = <<nextTimer, nextTimer + 1, nextTimer + 2>>
                 /\ ~escaped'
       /\ (lastCall' = "stopTrackingTime" /\ isOpen)
              => /\ ~isOpen'
                 /\ totalDuration' = calculateDuration(editTime, toISOString(now))
                 /\ timers' = clearIntervals(timers)
                 /\ ~escaped'
       /\ (lastCall' \in {"startTrackingTime", "stopTrackingTime"} => ~escaped')]_vars

\* a session was opened and closed while the data file stayed absent: the
\* writes of activate, start() and stop() all failed
C10_Witness ==
    /\ lastCall = "stopTrackingTime"
    /\ message = "Manual time tracking stopped."
    /\ ~isOpen
    /\ editTime # Null
    /\ file = FileAbsent

\* the step is a call that reaches updateData
CallsUpdateData ==
    \/ lastCall' = "startTrackingTime" /\ ~isOpen
    \/ lastCall' = "stopTrackingTime" /\ isOpen
    \/ lastCall' = KindUpdate /\ isOpen
    \/ lastCall' = KindKeystroke /\ editor.open
    \/ lastCall' = "deactivate" /\ ~escaped'

\* C11: when the data file is malformed (it does not parse, or its heartbeats
\* member is not an array) and the write succeeds, a call of updateData leaves a
\* document with the in-memory session fields and an empty heartbeats list, and
\* a resumed sendHeartbeat leaves one with exactly the heartbeat it appends.
C11_MalformedReset ==
    [][file.kind \in {"garbage", "misshapen"}
          => /\ CallsUpdateData
                    => file' = FileOf(TrackingData(isOpen', editTime', totalDuration',
                                                   keystrokeCount', <<>>))
             /\ (lastCall' = "sendHeartbeatResume" /\ ~escaped')
                    => /\ file'.kind = "json"
                       /\ file'.data.heartbeats = <<history'[Len(history')]>>]_vars

\* C12: once deactivate() has returned, no duration-update, heartbeat or
\* keystroke timer is live and no timer callback runs, whatever start() and
\* stop() calls came between activate and deactivate.
C12_TeardownStopsTicks ==
    phase = "deactivated" => /\ timers = {}
                             /\ lastCall \notin TimerCallbacks

\* the sendHeartbeat calls that found an active editor so far: those still
\* suspended and those that have appended
Invoked == Len(pending) + Len(history)

\* C13: with reads and writes succeeding, a resumed sendHeartbeat appends
\* exactly its one heartbeat to the list in the data file, no other step (a
\* duration tick, a keystroke tick, start(), stop(), another call suspending)
\* changes that list, so the file holds every heartbeat appended so far; and
\* every call that found an active editor is eventually among them.
C13_NoHeartbeatLost ==
    /\ [](FileHeartbeats(file) = history)
    /\ [][IF lastCall' = "sendHeartbeatResume"
          THEN /\ Len(pending') = Len(pending) - 1
               /\ \E i \in 1..Len(pending) :
                      /\ pending[i].timestamp = history'[Len(history')].timestamp
                      /\ pending[i].filePath = history'[Len(history')].filePath
               /\ FileHeartbeats(file') = Append(FileHeartbeats(file), history'[Len(history')])
          ELSE FileHeartbeats(file') = FileHeartbeats(file)]_vars
    /\ \A n \in 1..(MaxSamplingHeartbeats + 1) : (Invoked >= n) ~> (Len(history) >= n)

\* two calls sampled at different instants have both appended, a keystroke tick
\* ran between the two resumptions, and the session has been stopped
C13_Witness ==
    /\ lastCall = "sendHeartbeatResume"
    /\ pending = <<>>
    /\ Len(history) = 2
    /\ FileHeartbeats(file) = history
    /\ history[1].timestamp # history[2].timestamp
    /\ history[1].keystrokeCount # history[2].keystrokeCount
    /\ Stopped

\* C14: a heartbeat is appended to the data file only while the session is
\* open: no resumed sendHeartbeat appends while isOpen is false, be it before
\* the first start(), after a stop(), or a call suspended across a stop().
C14_NoSamplingWhileIdle ==
    [][(lastCall' = "sendHeartbeatResume" /\ history' # history) => isOpen]_vars

\* C15: while the session is open no keystroke tick makes keystrokeCount
\* smaller, whatever lengths the active document takes from tick to tick.
C15_KeystrokesMonotonic ==
    [][(lastCall' = KindKeystroke /\ isOpen) => keystrokeCount' >= keystrokeCount]_vars

\* the HH:MM:SS strings of the whole seconds up to n
DurationStrings(n) == {HHMMSS(k * MsPerSecond) : k \in 0..n}

\* C16: when the clock read by a duration tick or by stop() is earlier than
\* editTime, totalDuration becomes "00:00:00" or the call fails; and
\* totalDuration is always an HH:MM:SS string with no negative component.
C16_NegativeDuration ==
    /\ (/\ \/ lastCall = KindUpdate /\ isOpen
           \/ lastCall = "stopTrackingTime" /\ message = "Manual time tracking stopped."
        /\ now < DateGetTime(editTime))
           => (totalDuration = "00:00:00" \/ escaped)
    /\ totalDuration \in DurationStrings((MaxScenarioClockSteps + 1) * (TimerPeriod \div MsPerSecond))

\* C17: keystrokeCount equals previousCharCount in every reachable state: it is
\* the length the most recent keystroke tick read (0 before the first), so it
\* is never negative and does not depend on the lengths read earlier.
C17_CountIsLastLength ==
    /\ [](keystrokeCount = previousCharCount /\ keystrokeCount >= 0)
    /\ [][(lastCall' = KindKeystroke /\ editor.open) => keystrokeCount' = editor.length]_vars

\* a keystroke tick has read the length 100 after the counter stood at 140,
\* the value a heartbeat recorded
C17_Witness ==
    /\ lastCall = KindKeystroke
    /\ editor.open
    /\ editor.length = 100
    /\ keystrokeCount = 100
    /\ Len(history) = 1
    /\ history[1].keystrokeCount = 140

\* C18: in every reachable state at most one timer of each kind is live, and
\* every live timer is the one its handle (updateInterval, heartbeatInterval
\* or keystrokeInterval) references; so no start() has replaced the handle of a
\* timer that is still live.
C18_OneTimerPerKind ==
    /\ \A k \in TimerCallbacks : Cardinality({t \in timers : t.kind = k}) <= 1
    /\ \A t \in timers : t.id \in {updateInterval, heartbeatInterval, keystrokeInterval}

\* C19: whenever the session is open editTime is not null, and the document
\* in the data file always has a string for editTime, never null, also when a
\* keystroke tick, a heartbeat or deactivate() wrote it before the first
\* start().
C19_EditTimeIsString ==
    /\ isOpen => editTime # Null
    /\ file.kind = "json" => file.data.editTime # Null

\* the heartbeats h are in non-decreasing order of their timestamps
TimestampOrdered(h) ==
    \A i \in 1..(Len(h) - 1) : DateGetTime(h[i].timestamp) <= DateGetTime(h[i + 1].timestamp)

\* C20: the heartbeats in the data file are in non-decreasing timestamp order,
\* however the suspended sendHeartbeat calls are resumed; and the keystrokeCount
\* of the last heartbeat in the file equals the keystrokeCount of the document.
C20_HeartbeatsOrdered ==
    /\ TimestampOrdered(FileHeartbeats(file))
    /\ (file.kind = "json" /\ FileHeartbeats(file) # <<>>)
           => FileHeartbeats(file)[Len(FileHeartbeats(file))].keystrokeCount
                  = file.data.keystrokeCount


====
